---- MODULE Spec2Model ----
(***************************************************************************)
(* The provider abstraction and streaming chat pipeline of LLMstudio:      *)
(* llmstudio/engine/providers/provider.py (Provider, ChatRequest),         *)
(* llmstudio/engine/__init__.py (ProviderConfig, create_chat_handler) and  *)
(* llmstudio/models/vertexai.py (VertexAIClient.VertexAIModel).            *)
(*                                                                         *)
(* Conventions.                                                            *)
(*  - An Optional value is None (the empty tuple) or Some(x) (a 1-tuple).  *)
(*  - A text is a tuple of one-character strings.                          *)
(*  - Times are whole clock ticks; a float is kept as the reduced fraction *)
(*    [num, den] with den > 0, and the negative zero as 0 / -1.            *)
(*  - Costs per token are floats with whole-number values.                 *)
(*  - A call's outcome is a record whose field error names the exception   *)
(*    raised (NoError when the call returns).                              *)
(***************************************************************************)
EXTENDS Integers, Sequences, FiniteSets, TLC

VARIABLES
    pc,             \* where the request stands
    config,         \* the configuration object the adapter was built from
    tokenizer,      \* Provider.tokenizer
    request,        \* the ChatRequest being served
    error,          \* the exception the request ended with
    upstreamCalls,  \* calls made to the upstream service (the mock's counter)
    used_key,       \* the API key handed to the upstream
    clock,          \* time.time()
    stream,         \* per-request state of the response stream
    frames,         \* what the caller has received, in order
    ret             \* the router's handler, or the last direct method call

vars == <<pc, config, tokenizer, request, error, upstreamCalls, used_key,
          clock, stream, frames, ret>>

----------------------------------------------------------------------------
(* Bounds of the model *)

MaxChunks == 2      \* longest upstream chunk sequence
MaxTick == 2        \* largest clock advance between two observations
MaxTime == 2        \* largest time stamp passed to a direct call
MaxGap == 1         \* largest inter-token gap passed to a direct call

----------------------------------------------------------------------------
(* Values *)

None == <<>>
Some(x) == <<x>>
Get(o) == o[1]

NoError == "NoError"

Chars == {"a", "b"}

RECURSIVE TextsOfLen(_)
TextsOfLen(n) ==
    IF n = 0 THEN {<<>>}
    ELSE {Append(t, c) : t \in TextsOfLen(n - 1), c \in Chars}

Abs(n) == IF n < 0 THEN -n ELSE n

RECURSIVE Gcd(_, _)
Gcd(a, b) == IF b = 0 THEN a ELSE Gcd(b, a % b)

\* A float: a reduced fraction num / den with den > 0, and the negative zero
\* -0.0 as 0 / -1.  `neg` is the sign bit, a the magnitude's numerator (a >= 0)
\* and d its denominator (d > 0).
MkFloat(neg, a, d) ==
    LET g == Gcd(a, d)
    IN IF a = 0 THEN [num |-> 0, den |-> IF neg THEN -1 ELSE 1]
       ELSE [num |-> (IF neg THEN -1 ELSE 1) * (a \div g), den |-> d \div g]

\* The sign bit of a float
Neg(q) == q.num < 0 \/ (q.num = 0 /\ q.den < 0)

\* float(n) of a whole number n
Float(n) == MkFloat(n < 0, Abs(n), 1)

\* The float n / d of two whole numbers (d # 0): 0 / -d is -0.0.
Quot(n, d) == MkFloat((n < 0) # (d < 0), Abs(n), Abs(d))

\* q * n, a float times a whole number.  The product of the fractions is the
\* float product where it is a double exactly, as it is for the whole-number
\* prices of the model; a zero product has the sign of q if n >= 0.
FloatTimes(q, n) ==
    MkFloat(Neg(q) # (n < 0), Abs(q.num) * Abs(n), Abs(q.den))

\* p + q of two floats, exact on the same terms; a zero sum is -0.0 only if
\* both terms are -0.0.
FloatPlus(p, q) ==
    LET n == p.num * Abs(q.den) + q.num * Abs(p.den)
    IN MkFloat(IF n = 0 THEN Neg(p) /\ Neg(q) ELSE n < 0,
               Abs(n), Abs(p.den) * Abs(q.den))

RECURSIVE sum(_)
sum(s) == IF s = <<>> THEN 0 ELSE Head(s) + sum(Tail(s))

RECURSIVE Pow10(_)
Pow10(k) == IF k = 0 THEN 1 ELSE 10 * Pow10(k - 1)

\* floor(log2(n / d)) for n, d > 0
RECURSIVE Log2Floor(_, _)
Log2Floor(n, d) ==
    IF n >= 2 * d THEN Log2Floor(n, 2 * d) + 1
    ELSE IF n < d THEN Log2Floor(2 * n, d) - 1
    ELSE 0

\* 2^e mod m
RECURSIVE Pow2Mod(_, _)
Pow2Mod(e, m) == IF e = 0 THEN 1 % m ELSE (2 * Pow2Mod(e - 1, m)) % m

\* The float n / d (n, d > 0) is the binary double nearest to the quotient:
\* its 53-bit mantissa is n * 2^e / d rounded to an integer, with
\* e = 52 - floor(log2(n / d)).  This is the remainder of that division:
\* 0 when the double is the quotient exactly, more than d / 2 when the double
\* lies above it, less when it lies below.
DoubleRemainder(n, d) ==
    ((n % d) * Pow2Mod(52 - Log2Floor(n, d), d)) % d

\* format(q, ".<places>f") as a whole number of units of 10^-places (the sign
\* apart): the decimal nearest to the double.  When the quotient lies exactly
\* half way between two decimals, a double that is not the quotient decides
\* by the side it lies on, and an exact double rounds half to even.
Fixed(q, places) ==
    LET a == Abs(q.num)
        d == Abs(q.den)
        n == a * Pow10(places)
        f == n \div d
        r == n % d
        up == IF 2 * r > d THEN TRUE
              ELSE IF 2 * r < d THEN FALSE
              ELSE LET dr == DoubleRemainder(a, d)
                   IN IF dr = 0 THEN f % 2 = 1 ELSE 2 * dr > d
    IN f + (IF up THEN 1 ELSE 0)

\* The digits of v, zero-padded on the left to `width` digits.
RECURSIVE Digits(_, _)
Digits(v, width) ==
    IF width = 0 THEN ""
    ELSE Digits(v \div 10, width - 1) \o ToString(v % 10)

\* format(q, ".<places>f"): the string.  The sign printed is the sign bit,
\* so a negative value that rounds to zero, and -0.0, print "-0.00".
Format(q, places) ==
    LET v == Fixed(q, places)
    IN (IF Neg(q) THEN "-" ELSE "")
       \o ToString(v \div Pow10(places))
       \o (IF places = 0 THEN "" ELSE "." \o Digits(v % Pow10(places), places))

\* d with its factors p removed
RECURSIVE Strip(_, _)
Strip(d, p) == IF d % p = 0 THEN Strip(d \div p, p) ELSE d

\* The digits after the point of r / d (0 < r < d, d a divisor of a power of
\* ten), by long division.
RECURSIVE FracDigits(_, _)
FracDigits(r, d) ==
    IF r = 0 THEN ""
    ELSE ToString((10 * r) \div d) \o FracDigits((10 * r) % d, d)

\* str(q) of a float: the shortest decimal that reads back as the same
\* double, always with a point.  Defined where that decimal is the value
\* itself, written without an exponent: the value is a decimal fraction of at
\* most 15 digits, and is 0 or at least 0.0001.  A whole value prints "7.0",
\* -0.0 prints "-0.0".
FloatStr(q) ==
    LET a == Abs(q.num)
        d == Abs(q.den)
        whole == ToString(a \div d)
        frac == IF a % d = 0 THEN "0" ELSE FracDigits(a % d, d)
    IN CASE /\ Strip(Strip(d, 2), 5) = 1
            /\ a = 0 \/ a * 10000 >= d
            /\ Len(whole) + Len(frac) <= 15
            -> (IF Neg(q) THEN "-" ELSE "") \o whole \o "." \o frac

----------------------------------------------------------------------------
(* Errors.  The code raises Python exceptions; the names on the left are   *)
(* the ones the gateway's error taxonomy uses for them.                    *)

\* HTTPException(status_code=400, detail="Model ... is not supported by ...")
UnsupportedModelError == "HTTPException(400): model is not supported"
\* Python's exception for a division by zero
DivisionByZeroError == "ZeroDivisionError"
\* raised by LLMModel._raise_api_key_error
MissingCredentialsError == "MissingCredentialsError"
\* an upstream call that failed
UpstreamError == "UpstreamError"
InsufficientDataError == "InsufficientDataError"
UnknownProviderError == "UnknownProviderError"

----------------------------------------------------------------------------
(* Configuration: ModelConfig, ProviderConfig *)

\* ModelConfig declares both costs float: a whole number given for one is
\* stored as the float.
ModelConfig(input_token_cost, output_token_cost) ==
    [mode |-> "chat", max_tokens |-> 4,
     input_token_cost |-> Float(input_token_cost),
     output_token_cost |-> Float(output_token_cost)]

\* A model table: model name -> ModelConfig.
ModelTables ==
    { [small |-> ModelConfig(2, 3)],
      [small |-> ModelConfig(2, 3), large |-> ModelConfig(5, 7)] }

\* ProviderConfig has the fields id, name, chat, embed, keys, models and
\* parameters, and no other; keys and models default to None.
ProviderConfig(id, name, keys, models) ==
    [id |-> id, name |-> name, chat |-> TRUE, embed |-> FALSE,
     keys |-> keys, models |-> models, parameters |-> None]

ProviderNames ==
    { <<"openai", "OpenAI">>, <<"anthropic", "Anthropic">>,
      <<"cohere", "Cohere">>, <<"acme", "Acme">> }

ProviderConfigs ==
    { ProviderConfig(n[1], n[2], k, m) :
        n \in ProviderNames,
        k \in {None, Some(<<"cfg-key">>)},
        m \in {None} \cup {Some(t) : t \in ModelTables} }

\* Provider.__init__ takes any object as config.  Besides ProviderConfig the
\* model passes it configuration objects that also carry the attribute
\* `provider` that Provider._get_tokenizer reads.
ConfigObjects ==
    ProviderConfigs \cup
    { ProviderConfig(c[1], c[2], c[3], c[4]) @@ [provider |-> c[1]] :
        c \in { <<"openai", "OpenAI", Some(<<"cfg-key">>),
                  Some([small |-> ModelConfig(2, 3)])>>,
                <<"openai", "OpenAI", None, None>>,
                <<"anthropic", "Anthropic", None,
                  Some([small |-> ModelConfig(2, 3)])>>,
                <<"cohere", "Cohere", Some(<<"cfg-key">>),
                  Some([small |-> ModelConfig(2, 3), large |-> ModelConfig(5, 7)])>>,
                <<"acme", "Acme", Some(<<>>),
                  Some([small |-> ModelConfig(2, 3)])>> } }

----------------------------------------------------------------------------
(* ChatRequest *)

\* A parameter bag is a pydantic model: its class and its field values.
ParameterBags ==
    { [cls |-> "Parameters", fields |-> [temperature |-> 1, max_tokens |-> 4]] }

ChatRequest(api_key, model, chat_input, parameters, is_stream, has_end_token) ==
    [api_key |-> api_key, model |-> model, chat_input |-> chat_input,
     parameters |-> parameters, is_stream |-> is_stream,
     has_end_token |-> has_end_token]

ChatRequests ==
    { ChatRequest(k, m, <<"a", "b">>, p, s, e) :
        k \in {None, Some("req-key")},
        m \in {"small", "large"},
        p \in {None} \cup {Some(b) : b \in ParameterBags},
        s \in BOOLEAN,
        e \in BOOLEAN }

----------------------------------------------------------------------------
(* Tokenizers.  The three strategies are external libraries; each is a     *)
(* deterministic map from a text to its tokens, and they count differently.*)

TokenizerLoaders == {"anthropic", "cohere", "cl100k_base"}

\* len(tokenizer.encode(text))
TokenCount(tok, text) ==
    CASE tok = "anthropic" -> (Len(text) + 1) \div 2
      [] tok = "cohere" -> Len(text) + 1
      [] OTHER -> Len(text)

\* Provider._get_tokenizer.  The dictionary display is evaluated first, so
\* the Anthropic and the Cohere tokenizer are loaded whatever the provider
\* is; then the arguments of .get: self.config.provider, and the cl100k_base
\* encoding.  `fails` is the loader the environment lets fail, if any.
_get_tokenizer(cfg, fails) ==
    IF fails = Some("anthropic") \/ fails = Some("cohere")
    THEN [error |-> "TokenizerLoadError", tokenizer |-> "none"]
    ELSE IF "provider" \notin DOMAIN cfg
    THEN [error |-> "AttributeError", tokenizer |-> "none"]
    ELSE IF fails = Some("cl100k_base")
    THEN [error |-> "TokenizerLoadError", tokenizer |-> "none"]
    ELSE [error |-> NoError,
          tokenizer |-> IF cfg.provider \in {"anthropic", "cohere"}
                        THEN cfg.provider ELSE "cl100k_base"]

\* Provider.__init__
Provider_init(cfg, fails) == _get_tokenizer(cfg, fails)

----------------------------------------------------------------------------
(* Provider: the operations of the base adapter *)

\* Provider.chat: the model must be a key of config.models.  With
\* config.models None the membership test itself raises TypeError.
Provider_chat(cfg, chat_request) ==
    IF cfg.models = None THEN "TypeError"
    ELSE IF chat_request.model \notin DOMAIN Get(cfg.models)
    THEN UnsupportedModelError
    ELSE NoError

NoMetrics ==
    [latency |-> 0, time_to_first_token |-> 0,
     inter_token_latency |-> Quot(0, 1), tokens_per_second |-> Quot(0, 1)]

\* calculate_metrics that answers a zero latency with a throughput of 0.
calculate_metrics_defaulting(start_time, end_time, first_token_time, token_times, token_count) ==
    LET total_time == end_time - start_time IN
    IF Len(token_times) = 0
    THEN [error |-> "ZeroDivisionError", value |-> NoMetrics]
    ELSE [error |-> NoError,
          value |-> [latency |-> total_time,
                     time_to_first_token |-> first_token_time - start_time,
                     inter_token_latency |-> Quot(sum(token_times), Len(token_times)),
                     tokens_per_second |-> IF total_time = 0 THEN Quot(0, 1)
                                           ELSE Quot(token_count, total_time)]]

\* Provider.calculate_metrics.  The values of the dictionary are evaluated in
\* order: sum(token_times) / len(token_times), then token_count / total_time.
calculate_metrics(start_time, end_time, first_token_time, token_times, token_count) ==
    LET total_time == end_time - start_time IN
    IF Len(token_times) = 0
    THEN [error |-> "ZeroDivisionError", value |-> NoMetrics]
    ELSE IF total_time = 0
    THEN [error |-> "ZeroDivisionError", value |-> NoMetrics]
    ELSE [error |-> NoError,
          value |-> [latency |-> total_time,
                     time_to_first_token |-> first_token_time - start_time,
                     inter_token_latency |-> Quot(sum(token_times), Len(token_times)),
                     tokens_per_second |-> Quot(token_count, total_time)]]

NoUsage ==
    [input_tokens |-> 0, output_tokens |-> 0, total_tokens |-> 0,
     cost |-> Float(0)]

\* calculate_usage that prices the output tokens at the input rate.
calculate_usage_one_rate(cfg, tok, input, output, model) ==
    IF cfg.models = None
    THEN [error |-> "TypeError", value |-> NoUsage]
    ELSE IF model \notin DOMAIN Get(cfg.models)
    THEN [error |-> "KeyError", value |-> NoUsage]
    ELSE
        LET model_config == Get(cfg.models)[model]
            input_tokens == TokenCount(tok, input)
            output_tokens == TokenCount(tok, output)
        IN [error |-> NoError,
            value |-> [input_tokens |-> input_tokens,
                       output_tokens |-> output_tokens,
                       total_tokens |-> input_tokens + output_tokens,
                       cost |-> FloatTimes(model_config.input_token_cost,
                                           input_tokens + output_tokens)]]

\* Provider.calculate_usage
calculate_usage(cfg, tok, input, output, model) ==
    IF cfg.models = None
    THEN [error |-> "TypeError", value |-> NoUsage]
    ELSE IF model \notin DOMAIN Get(cfg.models)
    THEN [error |-> "KeyError", value |-> NoUsage]
    ELSE
        LET model_config == Get(cfg.models)[model]
            input_tokens == TokenCount(tok, input)
            output_tokens == TokenCount(tok, output)
            input_cost == FloatTimes(model_config.input_token_cost, input_tokens)
            output_cost == FloatTimes(model_config.output_token_cost, output_tokens)
        IN [error |-> NoError,
            value |-> [input_tokens |-> input_tokens,
                       output_tokens |-> output_tokens,
                       total_tokens |-> input_tokens + output_tokens,
                       cost |-> FloatPlus(input_cost, output_cost)]]

\* BaseModel.model_dump(): the dictionary of the bag's fields.
model_dump(bag) == bag.fields

NoResponse ==
    [id |-> "", chat_input |-> <<>>, chat_output |-> <<>>, timestamp |-> 0,
     model |-> "", usage |-> NoUsage, metrics |-> NoMetrics,
     parameters |-> [temperature |-> 0, max_tokens |-> 0]]

\* Provider.generate_response.  request.parameters defaults to None, and
\* None has no model_dump.
generate_response(req, chat_output, usage, metrics, now) ==
    IF req.parameters = None
    THEN [error |-> "AttributeError", value |-> NoResponse]
    ELSE [error |-> NoError,
          value |-> [id |-> "uuid4", chat_input |-> req.chat_input,
                     chat_output |-> chat_output, timestamp |-> now,
                     model |-> req.model, usage |-> usage, metrics |-> metrics,
                     parameters |-> model_dump(Get(req.parameters))]]

\* Provider.END_TOKEN
END_TOKEN == "<END_TOKEN>"

\* str(n) of a whole number
Str(n) == IF n < 0 THEN "-" \o ToString(-n) ELSE ToString(n)

\* Provider.get_end_token_string: the f-string.  The counts are printed by
\* str of a whole number, the cost by str of a float, the times with .5f and
\* the throughput with .2f.
get_end_token_string(usage, metrics) ==
    END_TOKEN
    \o ",input_tokens=" \o Str(usage.input_tokens)
    \o ",output_tokens=" \o Str(usage.output_tokens)
    \o ",cost=" \o FloatStr(usage.cost)
    \o ",latency=" \o Format(Quot(metrics.latency, 1), 5)
    \o ",time_to_first_token=" \o Format(Quot(metrics.time_to_first_token, 1), 5)
    \o ",inter_token_latency=" \o Format(metrics.inter_token_latency, 5)
    \o ",tokens_per_second=" \o Format(metrics.tokens_per_second, 2)

----------------------------------------------------------------------------
(* The Vertex AI client: VertexAIClient.VertexAIModel *)

\* LLMClient.get_model: the key the caller gives, else the client's own.
ResolveKey(caller_key, configured_key) ==
    IF caller_key # None THEN caller_key ELSE configured_key

\* `api_key or ...`: None and the empty string are false.
Falsy(api_key) == api_key = None \/ api_key = Some("")

\* LLMModel._raise_api_key_error: the exception it raises.
_raise_api_key_error == MissingCredentialsError

\* LLMModel._check_api_access: one upstream call, which the environment lets
\* succeed or not.
_check_api_access(access_ok) ==
    [error |-> IF access_ok THEN NoError ELSE UpstreamError, upstream |-> 1]

\* VertexAIModel.__init__: `api_key or self._raise_api_key_error()` is an
\* argument of super().__init__, so it is evaluated first, and
\* self._check_api_access() is called last.
VertexAIModel_init(model_name, api_key, access_ok) ==
    IF Falsy(api_key)
    THEN [error |-> _raise_api_key_error, api_key |-> None, upstream |-> 0]
    ELSE LET a == _check_api_access(access_ok)
         IN [error |-> a.error, api_key |-> api_key, upstream |-> a.upstream]

\* VertexAIClient.MODEL_MAPPING
MODEL_MAPPING == {"text-bison", "chat-bison", "code-bison", "codechat-bison"}

----------------------------------------------------------------------------
(* The registry of adapters and the upstream *)

\* llmstudio.engine.providers.provider_registry: class name -> adapter class.
provider_registry == {"OpenAIProvider", "AnthropicProvider", "CohereProvider"}

\* The chunk sequences an upstream may produce: 1 .. MaxChunks chunks, each a
\* one-character text.
ChunkSeqs ==
    UNION { [1..n -> TextsOfLen(1)] : n \in 1..MaxChunks }

\* The key an adapter has from its configuration, if any.
ConfiguredKey(cfg) ==
    IF cfg.keys = None \/ Get(cfg.keys) = <<>> THEN None
    ELSE Some(Get(cfg.keys)[1])

----------------------------------------------------------------------------
(* Initial state *)

NoConfig == ProviderConfig("", "", None, None)
NoRequest == ChatRequest(None, "", <<>>, None, FALSE, FALSE)
NoStream ==
    [pending |-> <<>>, produced |-> <<>>, start_time |-> 0,
     first_token_time |-> 0, last_token_time |-> 0, token_times |-> <<>>,
     chat_output |-> <<>>]
NoCall == [op |-> "none", args |-> <<>>, error |-> NoError, value |-> <<>>]

Init ==
    /\ pc = "idle"
    /\ config = NoConfig
    /\ tokenizer = "none"
    /\ request = NoRequest
    /\ error = NoError
    /\ upstreamCalls = 0
    /\ used_key = None
    /\ clock = 0
    /\ stream = NoStream
    /\ frames = <<>>
    /\ ret = NoCall

----------------------------------------------------------------------------
(* The router: create_chat_handler.chat_handler *)

\* chat_handler(request) is a coroutine; it gives the event loop its turn at
\* each await, so it runs in three steps.  `posted` is the body of the HTTP
\* request it is called with: a chat request, or None for a body that is not
\* JSON.
\*
\* First step, up to `await request.json()`:
\* provider_registry.get(f"{provider_config.name}Provider") is None for a name
\* with no adapter, and provider_class(provider_config) then calls None.
\* Otherwise the adapter is constructed.
Dispatch(provider_config, fails, posted) ==
    /\ pc = "idle"
    /\ config' = provider_config
    /\ IF (provider_config.name \o "Provider") \notin provider_registry
       THEN /\ error' = "TypeError"
            /\ pc' = "failed"
            /\ tokenizer' = tokenizer
       ELSE LET p == Provider_init(provider_config, fails)
            IN /\ tokenizer' = p.tokenizer
               /\ error' = p.error
               /\ pc' = IF p.error = NoError THEN "reading" ELSE "failed"
    /\ ret' = [op |-> "chat_handler", args |-> posted, error |-> error',
               value |-> <<>>]
    /\ UNCHANGED <<request, upstreamCalls, used_key, clock, stream, frames>>

\* Second step: `await request.json()` ends with the reader's exception for
\* a body that cannot be read ...
BodyUnreadable ==
    /\ pc = "reading"
    /\ ret.args = None
    /\ error' = "JSONDecodeError"
    /\ pc' = "failed"
    /\ ret' = [ret EXCEPT !.error = "JSONDecodeError"]
    /\ UNCHANGED <<config, tokenizer, request, upstreamCalls, used_key, clock,
                   stream, frames>>

\* ... or with the dictionary of the body.
BodyRead ==
    /\ pc = "reading"
    /\ ret.args # None
    /\ pc' = "calling"
    /\ UNCHANGED <<config, tokenizer, request, error, upstreamCalls, used_key,
                   clock, stream, frames, ret>>

\* Third step: provider_instance.chat(<the dictionary>).  An adapter that
\* makes its request object of the dictionary hands that to Provider.chat;
\* Provider.chat itself reads chat_request.model, which a dictionary does
\* not have.
HandlerChat(converts) ==
    /\ pc = "calling"
    /\ IF converts
       THEN /\ request' = Get(ret.args)
            /\ error' = Provider_chat(config, Get(ret.args))
       ELSE /\ request' = request
            /\ error' = "AttributeError"
    /\ pc' = IF error' = NoError THEN "validated" ELSE "failed"
    /\ ret' = [ret EXCEPT !.error = error']
    /\ UNCHANGED <<config, tokenizer, upstreamCalls, used_key, clock, stream,
                   frames>>

(* An adapter built and used directly *)

\* Provider(config)
Construct(cfg, fails) ==
    /\ pc = "idle"
    /\ LET p == Provider_init(cfg, fails)
       IN /\ config' = cfg
          /\ tokenizer' = p.tokenizer
          /\ error' = p.error
          /\ pc' = IF p.error = NoError THEN "constructed" ELSE "failed"
    /\ UNCHANGED <<request, upstreamCalls, used_key, clock, stream, frames, ret>>

\* provider.chat(chat_request), up to the end of Provider.chat
Chat(req) ==
    /\ pc = "constructed"
    /\ request' = req
    /\ error' = Provider_chat(config, req)
    /\ pc' = IF error' = NoError THEN "validated" ELSE "failed"
    /\ UNCHANGED <<config, tokenizer, upstreamCalls, used_key, clock, stream,
                   frames, ret>>

----------------------------------------------------------------------------
(* The adapter's upstream call.  The adapters that derive from Provider     *)
(* issue it after Provider.chat has returned, with the caller's key if the   *)
(* request has one and the configured key otherwise.                        *)

MissingCredentials ==
    /\ pc = "validated"
    /\ ResolveKey(request.api_key, ConfiguredKey(config)) = None
    /\ error' = MissingCredentialsError
    /\ pc' = "failed"
    /\ UNCHANGED <<config, tokenizer, request, upstreamCalls, used_key, clock,
                   stream, frames, ret>>

UpstreamFails ==
    /\ pc = "validated"
    /\ ResolveKey(request.api_key, ConfiguredKey(config)) # None
    /\ used_key' = ResolveKey(request.api_key, ConfiguredKey(config))
    /\ upstreamCalls' = upstreamCalls + 1
    /\ error' = UpstreamError
    /\ pc' = "failed"
    /\ UNCHANGED <<config, tokenizer, request, clock, stream, frames, ret>>

UpstreamResponds(chunks) ==
    /\ pc = "validated"
    /\ ResolveKey(request.api_key, ConfiguredKey(config)) # None
    /\ used_key' = ResolveKey(request.api_key, ConfiguredKey(config))
    /\ upstreamCalls' = upstreamCalls + 1
    /\ stream' = [NoStream EXCEPT !.pending = chunks, !.start_time = clock]
    /\ pc' = "streaming"
    /\ UNCHANGED <<config, tokenizer, request, error, clock, frames, ret>>

----------------------------------------------------------------------------
(* The response framer: the handle_response of the adapters.  Provider      *)
(* declares it; what it does is taken from the design of the framer.        *)

\* A frame: a text chunk, the terminator string, or the one ChatResponse.
TextFrame(chunk) == [kind |-> "text", text |-> chunk, line |-> ""]
EndFrame(line) == [kind |-> "end", text |-> <<>>, line |-> line]
ResponseFrame == [kind |-> "response", text |-> <<>>, line |-> ""]

\* The next upstream chunk arrives dt ticks after the last observation: it
\* is timed, added to the output text and, in streaming mode, emitted.
NextChunk(dt) ==
    /\ pc = "streaming"
    /\ stream.pending # <<>>
    /\ LET chunk == Head(stream.pending)
           now == clock + dt
           first == stream.produced = <<>>
       IN /\ clock' = now
          /\ stream' =
               [stream EXCEPT
                  !.pending = Tail(@),
                  !.produced = Append(@, chunk),
                  !.first_token_time = IF first THEN now ELSE @,
                  !.token_times =
                      IF first THEN @ ELSE Append(@, now - stream.last_token_time),
                  !.last_token_time = now,
                  !.chat_output = @ \o chunk]
          /\ frames' = IF request.is_stream
                       THEN Append(frames, TextFrame(chunk)) ELSE frames
    /\ UNCHANGED <<pc, config, tokenizer, request, error, upstreamCalls,
                   used_key, ret>>

\* The terminator when calculate_metrics reports InsufficientDataError:
\* the inter-token latency is written as 0.
SentinelEndToken(usage, start_time, end_time, first_token_time) ==
    get_end_token_string(usage,
        [latency |-> end_time - start_time,
         time_to_first_token |-> first_token_time - start_time,
         inter_token_latency |-> Quot(0, 1),
         tokens_per_second |-> Quot(usage.output_tokens, end_time - start_time)])

\* After the last chunk: usage and metrics are computed.  In streaming mode
\* the terminator is emitted if the request asks for one; InsufficientDataError
\* is caught there and only there.  In non-streaming mode the one
\* ChatResponse is returned.  Any other error ends the request.
Finish(dt) ==
    /\ pc = "streaming"
    /\ stream.pending = <<>>
    /\ clock' = clock + dt
    /\ LET end_time == clock + dt
           u == calculate_usage(config, tokenizer, request.chat_input,
                                stream.chat_output, request.model)
           m == calculate_metrics(stream.start_time, end_time,
                                  stream.first_token_time, stream.token_times,
                                  u.value.output_tokens)
           r == generate_response(request, stream.chat_output, u.value,
                                  m.value, end_time)
       IN IF request.is_stream /\ ~request.has_end_token
          THEN /\ pc' = "done"
               /\ UNCHANGED <<error, frames, ret>>
          ELSE IF u.error # NoError
          THEN /\ pc' = "failed"
               /\ error' = u.error
               /\ UNCHANGED <<frames, ret>>
          ELSE IF request.is_stream /\ m.error = InsufficientDataError
          THEN /\ pc' = "done"
               /\ frames' = Append(frames, EndFrame(
                     SentinelEndToken(u.value, stream.start_time, end_time,
                                      stream.first_token_time)))
               /\ UNCHANGED <<error, ret>>
          ELSE IF m.error # NoError
          THEN /\ pc' = "failed"
               /\ error' = m.error
               /\ UNCHANGED <<frames, ret>>
          ELSE IF request.is_stream
          THEN /\ pc' = "done"
               /\ frames' = Append(frames,
                     EndFrame(get_end_token_string(u.value, m.value)))
               /\ UNCHANGED <<error, ret>>
          ELSE IF r.error # NoError
          THEN /\ pc' = "failed"
               /\ error' = r.error
               /\ UNCHANGED <<frames, ret>>
          ELSE /\ pc' = "done"
               /\ frames' = Append(frames, ResponseFrame)
               /\ ret' = [op |-> "response", args |-> <<>>, error |-> NoError,
                          value |-> r.value]
               /\ UNCHANGED error
    /\ UNCHANGED <<config, tokenizer, request, upstreamCalls, used_key, stream>>

----------------------------------------------------------------------------
(* Direct calls of the calculator and of generate_response on an adapter *)

Times == 0..MaxTime

GapSeqs == UNION { [1..n -> 0..MaxGap] : n \in 0..MaxChunks }

Texts == UNION { TextsOfLen(n) : n \in 0..MaxChunks }

CallCalculateMetrics(start_time, end_time, first_token_time, token_times, token_count) ==
    /\ pc = "constructed"
    /\ LET m == calculate_metrics(start_time, end_time, first_token_time,
                                  token_times, token_count)
       IN ret' = [op |-> "calculate_metrics",
                  args |-> [start_time |-> start_time, end_time |-> end_time,
                            first_token_time |-> first_token_time,
                            token_times |-> token_times,
                            token_count |-> token_count],
                  error |-> m.error, value |-> m.value]
    /\ pc' = "returned"
    /\ UNCHANGED <<config, tokenizer, request, error, upstreamCalls, used_key,
                   clock, stream, frames>>

CallCalculateUsage(input, output, model) ==
    /\ pc = "constructed"
    /\ LET u == calculate_usage(config, tokenizer, input, output, model)
       IN ret' = [op |-> "calculate_usage",
                  args |-> [input |-> input, output |-> output, model |-> model],
                  error |-> u.error, value |-> u.value]
    /\ pc' = "returned"
    /\ UNCHANGED <<config, tokenizer, request, error, upstreamCalls, used_key,
                   clock, stream, frames>>

UsageRecords ==
    { NoUsage,
      [input_tokens |-> 2, output_tokens |-> 1, total_tokens |-> 3,
       cost |-> Float(7)] }

MetricsRecords ==
    { [latency |-> 2, time_to_first_token |-> 1,
       inter_token_latency |-> Quot(1, 2), tokens_per_second |-> Quot(1, 2)] }

CallGenerateResponse(req, chat_output, usage, metrics) ==
    /\ pc = "constructed"
    /\ LET r == generate_response(req, chat_output, usage, metrics, clock)
       IN ret' = [op |-> "generate_response",
                  args |-> [request |-> req, chat_output |-> chat_output,
                            usage |-> usage, metrics |-> metrics],
                  error |-> r.error, value |-> r.value]
    /\ pc' = "returned"
    /\ UNCHANGED <<config, tokenizer, request, error, upstreamCalls, used_key,
                   clock, stream, frames>>

----------------------------------------------------------------------------
(* The Vertex AI client *)

\* client.get_model(model_name, api_key): the model object is constructed
\* with the resolved key.
VertexAIGetModel(model_name, caller_key, client_key, access_ok) ==
    /\ pc = "idle"
    /\ LET v == VertexAIModel_init(model_name,
                                   ResolveKey(caller_key, client_key), access_ok)
       IN /\ error' = v.error
          /\ used_key' = v.api_key
          /\ upstreamCalls' = upstreamCalls + v.upstream
          /\ ret' = [op |-> "VertexAIModel",
                     args |-> [model_name |-> model_name,
                               caller_key |-> caller_key,
                               client_key |-> client_key],
                     error |-> v.error, value |-> <<>>]
          /\ pc' = IF v.error = NoError THEN "model_ready" ELSE "failed"
    /\ UNCHANGED <<config, tokenizer, request, clock, stream, frames>>

----------------------------------------------------------------------------
(* Specification *)

Loaders == {None} \cup {Some(l) : l \in TokenizerLoaders}

\* The bodies posted to a chat route
Bodies == {None} \cup {Some(r) : r \in ChatRequests}

Next ==
    \/ /\ pc = "idle"
       /\ \E c \in ConfigObjects, f \in Loaders, b \in Bodies :
             Dispatch(c, f, b)
    \/ BodyUnreadable
    \/ BodyRead
    \/ /\ pc = "calling"
       /\ \E converts \in BOOLEAN : HandlerChat(converts)
    \/ /\ pc = "idle"
       /\ \E c \in ConfigObjects, f \in Loaders : Construct(c, f)
    \/ /\ pc = "constructed"
       /\ \E r \in ChatRequests : Chat(r)
    \/ MissingCredentials
    \/ UpstreamFails
    \/ /\ pc = "validated"
       /\ \E chunks \in ChunkSeqs : UpstreamResponds(chunks)
    \/ \E dt \in 1..MaxTick : NextChunk(dt)
    \/ \E dt \in 1..MaxTick : Finish(dt)
    \/ /\ pc = "constructed"
       /\ \E s \in Times, e \in Times, f \in Times, g \in GapSeqs,
             n \in 0..MaxChunks : CallCalculateMetrics(s, e, f, g, n)
    \/ /\ pc = "constructed"
       /\ \E i \in Texts, o \in Texts, m \in {"small", "large"} :
             CallCalculateUsage(i, o, m)
    \/ /\ pc = "constructed"
       /\ \E r \in ChatRequests, o \in TextsOfLen(1), u \in UsageRecords,
             m \in MetricsRecords : CallGenerateResponse(r, o, u, m)
    \/ /\ pc = "idle"
       /\ \E n \in MODEL_MAPPING,
             k \in {None, Some(""), Some("req-key")},
             c \in {None, Some("cfg-key")},
             a \in BOOLEAN : VertexAIGetModel(n, k, c, a)

Spec == Init /\ [][Next]_vars

----------------------------------------------------------------------------
(* Properties *)

StartsWith(str, prefix) ==
    Len(str) >= Len(prefix) /\ SubSeq(str, 1, Len(prefix)) = prefix

Contains(str, part) ==
    \E i \in 1..(Len(str) - Len(part) + 1) :
        SubSeq(str, i, i + Len(part) - 1) = part

\* An adapter exists and its chat has been called with `request`.
ChatCalled == tokenizer # "none" /\ request # NoRequest

Registered == (config.name \o "Provider") \in provider_registry

\* The router's handler has run for `config`.
Dispatched == ret.op = "chat_handler"

\* The response stream of a streaming request has been read to its end and
\* the framer has finished.
StreamEnded ==
    /\ pc \in {"done", "failed"}
    /\ request.is_stream
    /\ stream.produced # <<>>
    /\ stream.pending = <<>>

\* C1: for every adapter, a chat request for a model that is not a key of
\* the adapter's model mapping fails with UnsupportedModelError, with no
\* upstream call made and no chunk streamed.  An adapter whose configuration
\* has no mapping (models is None, the default) has no key for any model.
C1_UnsupportedModelBeforeUpstream ==
    (/\ ChatCalled
     /\ \/ config.models = None
        \/ request.model \notin DOMAIN Get(config.models))
    => /\ pc = "failed"
       /\ error = UnsupportedModelError
       /\ upstreamCalls = 0
       /\ frames = <<>>

\* C2: dispatching to a provider name that has no adapter in the registry
\* fails with UnknownProviderError and no other failure, with no upstream
\* call.
C2_UnknownProvider ==
    (Dispatched /\ ~Registered)
    => /\ error = UnknownProviderError
       /\ upstreamCalls = 0

\* A chat request without a key has been posted to the chat route of a
\* registered provider that has no configured key, and the request is valid
\* but for its credentials: the provider has the model it names.
KeylessRequestPosted ==
    /\ Dispatched
    /\ Registered
    /\ ConfiguredKey(config) = None
    /\ ret.args # None
    /\ Get(ret.args).api_key = None
    /\ config.models # None
    /\ Get(ret.args).model \in DOMAIN Get(config.models)

\* C3: a request with neither a caller-supplied nor a configured key fails
\* with MissingCredentialsError and makes no upstream call, the API-access
\* check included; a key the caller supplies is the one used.  The first
\* conjunct is the request posted to the router (a tokenizer that cannot be
\* loaded is the environment's failure, not the request's), the second the
\* Vertex AI model object, the last two the preference of the caller's key.
C3_MissingCredentials ==
    /\ (KeylessRequestPosted /\ error # "TokenizerLoadError")
       => /\ upstreamCalls = 0
          /\ frames = <<>>
          /\ pc # "done"
          /\ pc = "failed" => error = MissingCredentialsError
    /\ (/\ ret.op = "VertexAIModel"
        /\ ret.args.caller_key = None
        /\ ret.args.client_key = None)
       => /\ error = MissingCredentialsError
          /\ upstreamCalls = 0
    /\ (/\ ret.op = "VertexAIModel"
        /\ ret.args.caller_key # None
        /\ upstreamCalls > 0)
       => used_key = ret.args.caller_key
    /\ (/\ ChatCalled
        /\ request.api_key # None
        /\ upstreamCalls > 0)
       => used_key = request.api_key

\* C4: in streaming mode the frames the caller receives are the upstream
\* chunks in upstream order, followed by exactly one terminator frame that
\* begins with END_TOKEN if has_end_token is set and by none otherwise.
C4_FramesThenTerminator ==
    StreamEnded =>
        LET n == Len(stream.produced) IN
        /\ Len(frames) = n + (IF request.has_end_token THEN 1 ELSE 0)
        /\ \A i \in 1..n :
              /\ frames[i].kind = "text"
              /\ frames[i].text = stream.produced[i]
        /\ request.has_end_token =>
              /\ frames[n + 1].kind = "end"
              /\ StartsWith(frames[n + 1].line, END_TOKEN)

\* The part of C4 about the text chunks alone: whatever the framer ends with,
\* the text frames emitted are the chunks read so far, in order, and nothing
\* follows a terminator.
ChunksInOrder ==
    (pc \in {"streaming", "done", "failed"} /\ request.is_stream) =>
        /\ Len(frames) >= Len(stream.produced)
        /\ \A i \in 1..Len(stream.produced) :
              /\ frames[i].kind = "text"
              /\ frames[i].text = stream.produced[i]
        /\ \A i \in 1..Len(frames) :
              frames[i].kind = "end" => i = Len(frames)

\* C5: when a terminator is requested and the stream had a single chunk (no
\* inter-token gap), the terminator is still emitted, with inter_token_latency
\* written as 0, and the request does not fail.
C5_TerminatorWithoutGaps ==
    (/\ StreamEnded
     /\ request.has_end_token
     /\ stream.token_times = <<>>)
    => /\ pc = "done"
       /\ error = NoError
       /\ frames # <<>>
       /\ frames[Len(frames)].kind = "end"
       /\ Contains(frames[Len(frames)].line, ",inter_token_latency=0.00000,")

\* C6: for a model of the configuration, calculate_usage returns the
\* tokenizer's counts of the two texts, their sum, and
\* cost = input_tokens * input_token_cost + output_tokens * output_token_cost.
C6_UsageCost ==
    (/\ ret.op = "calculate_usage"
     /\ config.models # None
     /\ ret.args.model \in DOMAIN Get(config.models))
    => LET it == TokenCount(tokenizer, ret.args.input)
           ot == TokenCount(tokenizer, ret.args.output)
           mc == Get(config.models)[ret.args.model]
       IN /\ ret.error = NoError
          /\ ret.value.input_tokens = it
          /\ ret.value.output_tokens = ot
          /\ ret.value.total_tokens = it + ot
          /\ ret.value.cost.den > 0
          /\ ret.value.cost.num * mc.input_token_cost.den * mc.output_token_cost.den
               = ret.value.cost.den
                   * (it * mc.input_token_cost.num * mc.output_token_cost.den
                      + ot * mc.output_token_cost.num * mc.input_token_cost.den)

C6_Witness ==
    /\ ret.op = "calculate_usage"
    /\ ret.error = NoError
    /\ ret.args.model = "large"
    /\ ret.value.input_tokens > 0
    /\ ret.value.output_tokens > 0

\* C7: calculate_metrics over a non-empty gap collection returns their
\* arithmetic mean as inter_token_latency; over an empty one it fails with
\* InsufficientDataError, a distinguished error.
C7_MeanOrInsufficientData ==
    ret.op = "calculate_metrics" =>
        IF ret.args.token_times = <<>>
        THEN ret.error = InsufficientDataError
        ELSE ret.error = NoError =>
                ret.value.inter_token_latency.num * Len(ret.args.token_times)
                  = sum(ret.args.token_times) * ret.value.inter_token_latency.den

\* C8: calculate_metrics with end_time = start_time and a non-empty gap
\* collection fails with DivisionByZeroError and returns no MetricsRecord.
C8_ZeroLatencyFails ==
    (/\ ret.op = "calculate_metrics"
     /\ ret.args.end_time = ret.args.start_time
     /\ ret.args.token_times # <<>>)
    => /\ ret.error = DivisionByZeroError
       /\ ret.value = NoMetrics

C8_Witness ==
    /\ ret.op = "calculate_metrics"
    /\ ret.args.end_time = ret.args.start_time
    /\ ret.args.token_times # <<>>
    /\ ret.args.token_count > 0
    /\ ret.error = DivisionByZeroError

\* C9: constructing an adapter from a ProviderConfig succeeds, with the
\* tokenizer chosen by the provider identifier: Anthropic's for "anthropic",
\* Cohere's for "cohere", cl100k_base for any other.  (A tokenizer the
\* environment fails to load is not held against the claim.)
C9_TokenizerById ==
    (/\ config.name # ""
     /\ "provider" \notin DOMAIN config
     /\ Dispatched => Registered
     /\ error # "TokenizerLoadError")
    => /\ error # "AttributeError"
       /\ tokenizer = IF config.id \in {"anthropic", "cohere"}
                      THEN config.id ELSE "cl100k_base"

\* C10: generate_response returns, for every ChatRequest (one without a
\* parameter bag included), a response that echoes the request's chat_input,
\* model and parameters and carries the usage and metrics passed in.
C10_ResponseEchoesRequest ==
    ret.op = "generate_response" =>
        /\ ret.error = NoError
        /\ ret.value.chat_input = ret.args.request.chat_input
        /\ ret.value.model = ret.args.request.model
        /\ ret.value.usage = ret.args.usage
        /\ ret.value.metrics = ret.args.metrics
        /\ ret.args.request.parameters # None =>
              ret.value.parameters = Get(ret.args.request.parameters).fields

====
